---- MODULE Spec2Model ----
(***************************************************************************)
(* Model of source/linearized_euler.cc: the driver of the linearized Euler *)
(* solver (LinearizedEulerProblem::run, adapt_mesh, output_results,        *)
(* cfl_stable), the CFL stability search (run_cfl_stability_analysis) and  *)
(* main.                                                                   *)
(*                                                                         *)
(* Numbers.  The CFL numbers are doubles in the code; here they are exact  *)
(* rationals num/scale with one common denominator `scale` (initially 20,  *)
(* i.e. units of 0.05; a division by 3 or by 2 multiplies the denominator  *)
(* and rescales the other values).  Rounding of doubles is not modelled.   *)
(* Times are kept in the same unit: a TimeControl time t stands for        *)
(* t/scale.  Error norms and error indicators are drawn from small sets of *)
(* non-negative integers.                                                  *)
(*                                                                         *)
(* Mesh.  The mesh is NCells tracked cells, each with a level; executing   *)
(* refinement raises the level of a refine-flagged cell by one and lowers  *)
(* the level of a coarsen-flagged cell by one (a level-0 cell has no       *)
(* parent and stays).  mesh_gen counts the rebuilds; every vector and the  *)
(* DoF handler carry the generation of the indexing they were built for.   *)
(***************************************************************************)
EXTENDS Integers, Sequences, FiniteSets, TLC

\* ------------------------------------------------------------ bounds
\* number of tracked mesh cells
NCells == 2
\* largest parameters.max_time_steps explored
MaxSteps == 3
\* largest parameters.n_adaptive_refinements explored
MaxAdaptive == 1
\* number of search iterations explored with the run in full detail (Spec)
MaxRuns == 2

\* ------------------------------------------------------------ program constants
\* loop bound of run_cfl_stability_analysis
SearchIterations == 12
\* marker of a double member the constructor leaves uninitialised
Indet == -2
\* initial denominator of the CFL numbers: 0.05 = 1/20, 0.1 = 2/20
InitScale == 20
\* minimum vertex distance of a level-0 cell, in length units
CoarseDiameter == 16

\* ------------------------------------------------------------ input domains
Cells == 1..NCells
\* values of the L2 error norm of the density at an output
ErrVals == {0, 1, 2, 150}
\* values of the L2 norm of the density at an output
MagVals == {10, 100}
\* the norms drawn in the runs that adapt the mesh or do not monitor stability
FewErrVals == {1, 150}
FewMagVals == {10}
\* values of the cellwise error indicator
IndVals == {0, 1, 15}
\* parameters.n_refinements
RefinementVals == {1}
\* parameters.adaptive_refinement_interval
IntervalVals == {1, 2}
\* parameters.cfl_number at program start, as a multiple of 1/InitScale
CflVals == {6}
\* parameters.final_time and parameters.output_every_time, in time units
FinalTimeVals == {4}
OutputEveryVals == {2}
\* parameters.dimension, parameters.fe_degree, parameters.integ_type
\* (dimension 3 runs the same template code as dimension 2; 1 is not supported,
\* nor is degree 6 or an unknown scheme)
DimensionVals == {1, 2}
DegreeVals == {1, 6}
IntegVals == {"lsrk45reg2", "unknown"}
\* the search is explored for the degrees whose power 1.5 is an integer
SearchDegreeVals == {1, 4}
\* parameters.cfl_number at the start of the search, as a multiple of 1/InitScale
SearchCflVals == {1, 6, 40, 1959}
ValidIntegs == {"expleuler", "classrk4", "lsrk45reg2", "lsrk33reg2",
                "lsrk45reg3", "lsrk59reg2", "ssprk"}

RECURSIVE Pow2(_)
Pow2(n) == IF n <= 0 THEN 1 ELSE 2 * Pow2(n - 1)

Max(a, b) == IF a >= b THEN a ELSE b

MaxOf(S) == CHOOSE x \in S : \A y \in S : y <= x

VARIABLES
  parameters,                  \* Parameters (cfl_number is rewritten by the search)
  pc,                          \* position in main / the search / run / adapt_mesh
  am_ret,                      \* caller of adapt_mesh: "prerefine", "loop" or "none"
  exit_code,                   \* -1 while the process runs, then main's return value
  err_report,                  \* what main's handlers wrote to std::cerr ("none" so far)
  \* triangulation, dof_handler
  levels, mesh_gen, dof_gen, refine_flags, coarsen_flags, error_per_cell,
  \* solutions, tmp_solutions, the SolutionTransfer's stored data
  solutions, tmp_solutions, sol_trans,
  \* time_control
  time, step_number, time_step, tick,
  \* members and locals of LinearizedEulerProblem
  op_set, n_refinements_left, maximal_cellwise_error_init,
  last_error_val, first_error_val, first_mangnitude_val,
  \* locals of run_cfl_stability_analysis
  i, cfl_test, cfl_closest_stable, cfl_closest_instable, scale, simu_was_stable,
  \* history (not program state)
  hist

vars == << parameters, pc, am_ret, exit_code, err_report,
           levels, mesh_gen, dof_gen, refine_flags, coarsen_flags, error_per_cell,
           solutions, tmp_solutions, sol_trans,
           time, step_number, time_step, tick,
           op_set, n_refinements_left, maximal_cellwise_error_init,
           last_error_val, first_error_val, first_mangnitude_val,
           i, cfl_test, cfl_closest_stable, cfl_closest_instable, scale,
           simu_was_stable, hist >>

meshVars == << levels, mesh_gen, dof_gen, refine_flags, coarsen_flags, error_per_cell >>
vecVars == << solutions, tmp_solutions, sol_trans >>
timeVars == << time, step_number, time_step, tick >>
monitorVars == << last_error_val, first_error_val, first_mangnitude_val >>
memberVars == << op_set, n_refinements_left, maximal_cellwise_error_init >>
searchVars == << i, cfl_test, cfl_closest_stable, cfl_closest_instable, scale,
                 simu_was_stable >>

\* ------------------------------------------------------------ pure helpers
\* a vector: the generation of the DoF indexing it is laid out for and what it holds
\* ("empty" before the first initialize_dof_vector, "zero" after a reinit, "initial"
\* the projected exact solution, "step" the result of time step `step`)
Vec(g, k, n) == [gen |-> g, kind |-> k, step |-> n]
EmptyVec == Vec(-1, "empty", 0)

\* minimum_vertex_distance of a cell of level l
Diameter(l) == CoarseDiameter \div Pow2(l)

compute_time_step_sizeMut == parameters.cfl_number * CoarseDiameter
compute_time_step_size ==
  LET min_cell_diameter == Diameter(MaxOf({levels[c] : c \in Cells}))
  IN  parameters.cfl_number * min_cell_diameter

\* the divergence test of output_results and of cfl_stable
DivergentMut(last, first, mag) == last > 100 * first /\ 2 * last > 3 * mag
Divergent(last, first, mag) == last > 100 * first \/ 2 * last > 3 * mag

cfl_stableMut == ~ Divergent(last_error_val, last_error_val, first_mangnitude_val)
cfl_stable == ~ Divergent(last_error_val, first_error_val, first_mangnitude_val)

\* TimeControl (include/time_integrators.h is not part of the sources)
TimeControlDone == time >= parameters.final_time * scale
                   \/ step_number >= parameters.max_time_steps
TickIndex(t) == t \div (parameters.output_every_time * scale)

\* a read of vector v through the DoF handler is consistent when the vector, the
\* DoF handler and the mesh are of one generation
ReadOK(v) == v.gen = mesh_gen /\ dof_gen = mesh_gen

\* the candidates of the stability limit against which the verdicts of a search are
\* compared, as multiples of 1/InitScale
ThresholdVals == {4, 10, 30}

\* History of the run in progress (reset by the constructor) and of the search:
\*   stale          a vector was read or written through an indexing not of its generation
\*   n_outputs      output evaluations of the run so far
\*   first_obs      error and magnitude of the first output of a monitored run
\*   prev_obs, last_obs   error of the output before the last one, and of the last one
\*   latches        assignments to first_error_val
\*   diverged       the observations of a monitored run satisfy the divergence test
\*   after_diverged a time step, adaptation or output was made after that
\*   declared       line 475 set the time to final_time
\*   integrated, adapted   step number of the last integration / in-loop adaptation
\*   out_step, out_gen     step number and mesh generation at the last output
\*   adv_gen        mesh generation at the last advance
\*   adv_dt, int_dt, int_src   step size of the last advance, dt and source vector of
\*                  the last integration
\*   runs, updates  finished runs and bound updates of the search
\*   cfl0           candidate at the start of the search
\*   prev_bounds    the two bounds before the last update
\*   prev_cand, prev_scale   candidate and denominator before the last candidate rule
\*   thetas         the thresholds with which every verdict so far agrees
\*   stepped        the time reached by the time steps alone
\*   rep_steps, rep_avg   the step count of the final report (-1: none yet) and its
\*                  average wall time per step ("none", "number" or "nan")
\*   pre_adapts, prepasses   calls of adapt_mesh before the time loop that returned,
\*                  and re-projections that followed one
\*   max_assigns, max_captured   assignments to maximal_cellwise_error_init, and the
\*                  value of the last one
\*   live           LinearizedEulerProblem objects constructed and not yet destroyed
\*   verdicts       the runs of the search so far: << cfl_number the run was given,
\*                  its denominator, verdict >>
\*   thrown         the exception that left main's try block: "none", "std" (a
\*                  std::exception, as AssertThrow throws) or "other"
NoHist == [stale |-> FALSE, n_outputs |-> 0, first_obs |-> << -1, -1 >>,
           prev_obs |-> -1, last_obs |-> -1, latches |-> 0,
           diverged |-> FALSE, after_diverged |-> FALSE, declared |-> FALSE,
           integrated |-> 0, adapted |-> 0, out_step |-> -1, out_gen |-> -1,
           adv_gen |-> 0, adv_dt |-> 0, int_dt |-> 0, int_src |-> EmptyVec,
           runs |-> 0, updates |-> 0, cfl0 |-> 0, prev_bounds |-> << 0, 0 >>,
           prev_cand |-> 0, prev_scale |-> InitScale, thetas |-> ThresholdVals,
           stepped |-> 0, rep_steps |-> -1, rep_avg |-> "none",
           thrown |-> "none", pre_adapts |-> 0, prepasses |-> 0,
           max_assigns |-> 0, max_captured |-> -1, live |-> 0,
           verdicts |-> {}]

\* ------------------------------------------------------------ initial state
ParameterSpace ==
  [ dimension : DimensionVals, fe_degree : DegreeVals, integ_type : IntegVals,
    cfl_stability_analysis : BOOLEAN, cfl_number : CflVals,
    n_refinements : RefinementVals, n_adaptive_refinements : 0..MaxAdaptive,
    adaptive_refinement_interval : IntervalVals,
    final_time : FinalTimeVals, output_every_time : OutputEveryVals,
    max_time_steps : {MaxSteps} ]

InitRest ==
  /\ pc = "main"
  /\ am_ret = "none"
  /\ exit_code = -1
  /\ err_report = "none"
  /\ levels = [c \in Cells |-> 0]
  /\ mesh_gen = 0
  /\ dof_gen = -1
  /\ refine_flags = {}
  /\ coarsen_flags = {}
  /\ error_per_cell = [c \in Cells |-> 0]
  /\ solutions = EmptyVec
  /\ tmp_solutions = EmptyVec
  /\ sol_trans = EmptyVec
  /\ time = 0
  /\ step_number = 0
  /\ time_step = 0
  /\ tick = FALSE
  /\ op_set = FALSE
  /\ n_refinements_left = 0
  /\ maximal_cellwise_error_init = Indet
  /\ last_error_val = Indet
  /\ first_error_val = Indet
  /\ first_mangnitude_val = Indet
  /\ i = 0
  /\ cfl_test = 0
  /\ cfl_closest_stable = 0
  /\ cfl_closest_instable = 0
  /\ scale = InitScale
  /\ simu_was_stable = FALSE
  /\ hist = NoHist

Init == parameters \in ParameterSpace /\ InitRest

\* ------------------------------------------------------------ main
\* main, line 800: parameters.read_parameters(paramfile) fails; the parameter handler
\* is not part of the sources and may throw a std::exception or anything else
MainReadFails ==
  /\ pc = "main"
  /\ \E kind \in {"std", "other"} :
       /\ pc' = IF kind = "std" THEN "exception" ELSE "unknown_exception"
       /\ hist' = [hist EXCEPT !.thrown = kind]
  /\ UNCHANGED << parameters, am_ret, exit_code, err_report, meshVars, vecVars, timeVars,
                  memberVars, monitorVars, searchVars >>

\* main, lines 802-824: dispatch on the dimension and on cfl_stability_analysis; any
\* other dimension than 2 or 3 is the AssertThrow of line 823
OnInvalidDimensionMut == "construct"
OnInvalidDimension == "exception"

MainDispatch ==
  /\ pc = "main"
  /\ IF parameters.dimension \in {2, 3}
       THEN IF ~ parameters.cfl_stability_analysis
              THEN pc' = "construct"
              ELSE pc' = "search_init"
       ELSE pc' = OnInvalidDimension
  /\ hist' = [hist EXCEPT !.thrown = IF parameters.dimension \in {2, 3} THEN @ ELSE "std"]
  /\ UNCHANGED << parameters, am_ret, exit_code, err_report, meshVars, vecVars, timeVars,
                  memberVars, monitorVars, searchVars >>

\* main, lines 827-829 and 857: the parameters are printed and main returns 0
MainFinish ==
  /\ pc = "main_finish"
  /\ pc' = "exited"
  /\ exit_code' = 0
  /\ UNCHANGED << parameters, am_ret, err_report, meshVars, vecVars, timeVars,
                  memberVars, monitorVars, searchVars, hist >>

\* what the two handlers write to std::cerr (lines 837 and 850)
KnownMessage == "Exception on processing: "
UnknownMessageMut == KnownMessage
UnknownMessage == "Unknown exception!"

\* main, lines 832-844: a std::exception is caught, reported, and main returns 1
MainCatch ==
  /\ pc = "exception"
  /\ pc' = "exited"
  /\ exit_code' = 1
  /\ err_report' = KnownMessage
  /\ UNCHANGED << parameters, am_ret, meshVars, vecVars, timeVars,
                  memberVars, monitorVars, searchVars, hist >>

\* main, lines 845-855: any other exception is caught, reported, and main returns 1
MainCatchAll ==
  /\ pc = "unknown_exception"
  /\ pc' = "exited"
  /\ exit_code' = 1
  /\ err_report' = UnknownMessage
  /\ UNCHANGED << parameters, am_ret, meshVars, vecVars, timeVars,
                  memberVars, monitorVars, searchVars, hist >>

\* ------------------------------------------------------------ LinearizedEulerProblem
\* the constructor: maximal_cellwise_error_init(-1), first_error_val(-1.0); the other
\* doubles are left uninitialised, the vectors and the triangulation are empty
\* line 165 of the constructor: maximal_cellwise_error_init(-1)
InitialReferenceErrorMut == MaxOf(IndVals)
InitialReferenceError == -1

\* line 166 of the constructor: first_error_val(-1.0)
FirstErrorSentinelMut == first_error_val
FirstErrorSentinel == -1

Construct ==
  /\ pc = "construct"
  /\ pc' = "make_grid"
  /\ am_ret' = "none"
  /\ levels' = [c \in Cells |-> 0]
  /\ mesh_gen' = 0
  /\ dof_gen' = -1
  /\ refine_flags' = {}
  /\ coarsen_flags' = {}
  /\ error_per_cell' = [c \in Cells |-> 0]
  /\ solutions' = EmptyVec
  /\ tmp_solutions' = EmptyVec
  /\ sol_trans' = EmptyVec
  /\ time' = 0
  /\ step_number' = 0
  /\ time_step' = 0
  /\ tick' = FALSE
  /\ op_set' = FALSE
  /\ n_refinements_left' = 0
  /\ maximal_cellwise_error_init' = InitialReferenceError
  /\ first_error_val' = FirstErrorSentinel
  /\ last_error_val' = Indet
  /\ first_mangnitude_val' = Indet
  /\ hist' = [NoHist EXCEPT !.stale = hist.stale, !.runs = hist.runs,
                            !.updates = hist.updates, !.cfl0 = hist.cfl0,
                            !.prev_bounds = hist.prev_bounds,
                            !.prev_cand = hist.prev_cand,
                            !.prev_scale = hist.prev_scale,
                            !.thetas = hist.thetas,
                            !.thrown = hist.thrown,
                            !.live = hist.live + 1,
                            !.verdicts = hist.verdicts]
  /\ UNCHANGED << parameters, exit_code, err_report, searchVars >>

\* run, line 521: make_grid builds the mesh of n_refinements global refinements
RunMakeGrid ==
  /\ pc = "make_grid"
  /\ pc' = "setup_time"
  /\ levels' = [c \in Cells |-> parameters.n_refinements]
  /\ UNCHANGED << parameters, am_ret, exit_code, err_report, mesh_gen, dof_gen, refine_flags,
                  coarsen_flags, error_per_cell, vecVars, timeVars, memberVars,
                  monitorVars, searchVars, hist >>

\* run, lines 524-527: time_control.setup
RunSetupTime ==
  /\ pc = "setup_time"
  /\ pc' = "select_op"
  /\ time' = 0
  /\ step_number' = 0
  /\ time_step' = compute_time_step_size
  /\ tick' = FALSE
  /\ UNCHANGED << parameters, am_ret, exit_code, err_report, meshVars, vecVars, memberVars,
                  monitorVars, searchVars, hist >>

\* run, lines 532-572: the operator is chosen by scheme and degree. An unknown scheme
\* is the AssertThrow of line 571. A degree outside 1..5 is the Assert of line 569: a
\* debug build aborts there; a release build compiles the Assert away and goes on to
\* make_dofs with linearized_euler_op still null
RunSelectOp ==
  /\ pc = "select_op"
  /\ IF parameters.integ_type \in ValidIntegs
       THEN IF parameters.fe_degree \in 1..5
              THEN pc' = "make_dofs" /\ op_set' = TRUE
              ELSE pc' \in {"aborted", "make_dofs"} /\ op_set' = FALSE
       ELSE pc' = "exception" /\ op_set' = FALSE
  /\ hist' = [hist EXCEPT !.thrown = IF parameters.integ_type \in ValidIntegs
                                       THEN @ ELSE "std",
                          !.live = IF parameters.integ_type \in ValidIntegs
                                     THEN @ ELSE @ - 1]
  /\ UNCHANGED << parameters, am_ret, exit_code, err_report, meshVars, vecVars, timeVars,
                  n_refinements_left, maximal_cellwise_error_init,
                  monitorVars, searchVars >>

\* make_dofs, lines 196-228: distribute_dofs, set_time_step, initialize_dof_vector
\* (a zero vector laid out for the new indexing), tmp_solutions.reinit
ReinitGenMut(g) == g - 1
ReinitGen(g) == g

make_dofs ==
  /\ dof_gen' = mesh_gen
  /\ time_step' = compute_time_step_size
  /\ solutions' = Vec(ReinitGen(mesh_gen), "zero", 0)
  /\ tmp_solutions' = Vec(ReinitGen(mesh_gen), "zero", 0)

\* run, line 574. Without an operator (release build, degree outside 1..5) make_dofs
\* gets as far as line 212 and the call through the null pointer at line 213 ends the
\* process
RunMakeDofs ==
  /\ pc = "make_dofs"
  /\ IF op_set
       THEN pc' = "project_initial" /\ make_dofs
       ELSE /\ pc' = "aborted"
            /\ dof_gen' = mesh_gen
            /\ time_step' = compute_time_step_size
            /\ UNCHANGED << solutions, tmp_solutions >>
  /\ UNCHANGED << parameters, am_ret, exit_code, err_report, levels, mesh_gen, refine_flags,
                  coarsen_flags, error_per_cell, sol_trans, time, step_number, tick,
                  memberVars, monitorVars, searchVars, hist >>

\* run, lines 579-584: the initial condition is projected onto solutions
RunProjectInitial ==
  /\ pc = "project_initial"
  /\ pc' = "prerefine_test"
  /\ solutions' = Vec(solutions.gen, "initial", 0)
  /\ n_refinements_left' = parameters.n_adaptive_refinements
  /\ hist' = [hist EXCEPT !.stale = @ \/ ~ (dof_gen = mesh_gen /\ solutions.gen = mesh_gen)]
  /\ UNCHANGED << parameters, am_ret, exit_code, err_report, meshVars, tmp_solutions, sol_trans,
                  timeVars, op_set, maximal_cellwise_error_init, monitorVars,
                  searchVars >>

\* run, line 585: while (n_refinements_left > 0) adapt_mesh(); otherwise line 602
RunPrerefineTest ==
  /\ pc = "prerefine_test"
  /\ IF n_refinements_left > 0
       THEN pc' = "am_estimate" /\ am_ret' = "prerefine"
       ELSE pc' = "initial_output" /\ am_ret' = "none"
  /\ UNCHANGED << parameters, exit_code, err_report, meshVars, vecVars, timeVars, memberVars,
                  monitorVars, searchVars, hist >>

\* run, lines 588-598: re-project the initial condition, count the pass, and after
\* the last pass take the maximum of a fresh error estimate as the reference error
\* line 593: if (n_refinements_left == 0), after the decrement of line 592
CaptureDueMut(left) == TRUE
CaptureDue(left) == left = 0

RunPrerefineProject ==
  /\ pc = "prerefine_project"
  /\ pc' = "prerefine_test"
  /\ solutions' = Vec(solutions.gen, "initial", 0)
  /\ n_refinements_left' = n_refinements_left - 1
  /\ IF CaptureDue(n_refinements_left - 1)
       THEN /\ \E e \in [Cells -> IndVals] :
                 /\ maximal_cellwise_error_init' = MaxOf({e[c] : c \in Cells})
                 /\ hist' = [hist EXCEPT !.stale = @ \/ ~ ReadOK(solutions)
                                                      \/ ~ ReadOK(tmp_solutions),
                                         !.prepasses = @ + 1,
                                         !.max_assigns = @ + 1,
                                         !.max_captured = MaxOf({e[c] : c \in Cells})]
       ELSE /\ UNCHANGED maximal_cellwise_error_init
            /\ hist' = [hist EXCEPT !.stale = @ \/ ~ ReadOK(solutions),
                                    !.prepasses = @ + 1]
  /\ UNCHANGED << parameters, am_ret, exit_code, err_report, meshVars, tmp_solutions, sol_trans,
                  timeVars, op_set, monitorVars, searchVars >>

\* ------------------------------------------------------------ output_results
\* the norms an output may compute: the full sets where the stability record is the
\* only input of the run, two values otherwise
ErrInputs == IF parameters.cfl_stability_analysis /\ parameters.n_adaptive_refinements = 0
               THEN ErrVals ELSE FewErrVals
MagInputs == IF parameters.cfl_stability_analysis /\ parameters.n_adaptive_refinements = 0
               THEN MagVals ELSE FewMagVals

\* line 469: the record is latched while first_error_val is still negative
LatchNeededMut(first) == TRUE
LatchNeeded(first) == first < 0

\* line 475: time_control.set_time(parameters.final_time)
TimeOnDivergenceMut == time
TimeOnDivergence == parameters.final_time * scale

\* output_results, lines 321-494, with e the L2 error of the density (line 435) and m
\* the L2 norm of the density (line 420) computed from solutions
output_results(e, m) ==
  LET analysis == parameters.cfl_stability_analysis
      latch    == analysis /\ LatchNeeded(first_error_val)
      first    == IF latch THEN e ELSE first_error_val
      mag      == IF latch THEN m ELSE first_mangnitude_val
      declare  == analysis /\ Divergent(e, first, mag)
      obs1     == IF analysis /\ hist.n_outputs = 0 THEN << e, m >> ELSE hist.first_obs
  IN  /\ last_error_val' = e
      /\ first_error_val' = first
      /\ first_mangnitude_val' = mag
      /\ time' = IF declare THEN TimeOnDivergence ELSE time
      /\ hist' = [hist EXCEPT !.stale = @ \/ ~ ReadOK(solutions),
                              !.n_outputs = @ + 1,
                              !.first_obs = obs1,
                              !.prev_obs = IF analysis THEN hist.last_obs ELSE @,
                              !.last_obs = e,
                              !.latches = IF latch THEN @ + 1 ELSE @,
                              !.diverged = @ \/ (analysis /\ (e > 100 * obs1[1]
                                                              \/ 2 * e > 3 * obs1[2])),
                              !.after_diverged = @ \/ hist.diverged,
                              !.declared = @ \/ declare,
                              !.out_step = step_number,
                              !.out_gen = mesh_gen]

\* run, line 602: output of the initial fields
RunInitialOutput ==
  /\ pc = "initial_output"
  /\ pc' = "select_integrator"
  /\ \E e \in ErrInputs, m \in MagInputs : output_results(e, m)
  /\ UNCHANGED << parameters, am_ret, exit_code, err_report, meshVars, vecVars, step_number,
                  time_step, tick, memberVars, searchVars >>

\* run, lines 606-645: the integrator is chosen by scheme
RunSelectIntegrator ==
  /\ pc = "select_integrator"
  /\ pc' = IF parameters.integ_type \in ValidIntegs THEN "loop_test" ELSE "exception"
  /\ hist' = [hist EXCEPT !.thrown = IF parameters.integ_type \in ValidIntegs
                                       THEN @ ELSE "std",
                          !.live = IF parameters.integ_type \in ValidIntegs
                                     THEN @ ELSE @ - 1]
  /\ UNCHANGED << parameters, am_ret, exit_code, err_report, meshVars, vecVars, timeVars,
                  memberVars, monitorVars, searchVars >>

\* ------------------------------------------------------------ the time loop
\* run, line 651: while (!time_control.done())
LoopTest ==
  /\ pc = "loop_test"
  /\ pc' = IF TimeControlDone THEN "report" ELSE "advance"
  /\ UNCHANGED << parameters, am_ret, exit_code, err_report, meshVars, vecVars, timeVars,
                  memberVars, monitorVars, searchVars, hist >>

\* the order of the loop body, lines 653-675
AfterAdvanceMut == "integrate"
AfterAdvance == "swap"
AfterSwap == "integrate"
AfterIntegrateMut == "analysis"
AfterIntegrate == "adapt_test"
AfterAdapt == "analysis"
AfterAnalysis == "tick_test"
AfterOutputMut == "advance"
AfterOutput == "loop_test"

\* run, line 653: time_control.advance_time_step()
LoopAdvance ==
  /\ pc = "advance"
  /\ pc' = AfterAdvance
  /\ step_number' = step_number + 1
  /\ time' = time + time_step
  /\ tick' = (TickIndex(time + time_step) > TickIndex(time))
  /\ hist' = [hist EXCEPT !.after_diverged = @ \/ hist.diverged,
                          !.adv_dt = time_step,
                          !.adv_gen = mesh_gen,
                          !.stepped = @ + time_step]
  /\ UNCHANGED << parameters, am_ret, exit_code, err_report, meshVars, vecVars, time_step,
                  memberVars, monitorVars, searchVars >>

\* run, line 656: tmp_solutions.swap(solutions)
LoopSwap ==
  /\ pc = "swap"
  /\ pc' = AfterSwap
  /\ solutions' = tmp_solutions
  /\ tmp_solutions' = solutions
  /\ UNCHANGED << parameters, am_ret, exit_code, err_report, meshVars, sol_trans, timeVars,
                  memberVars, monitorVars, searchVars, hist >>

\* run, lines 658-660: perform_time_step(tmp_solutions, solutions, dt, op) reads
\* tmp_solutions and writes the new state into solutions
LoopIntegrate ==
  /\ pc = "integrate"
  /\ pc' = AfterIntegrate
  /\ solutions' = Vec(solutions.gen, "step", step_number)
  /\ hist' = [hist EXCEPT !.stale = @ \/ ~ ReadOK(tmp_solutions) \/ ~ ReadOK(solutions),
                          !.after_diverged = @ \/ hist.diverged,
                          !.integrated = step_number,
                          !.int_dt = time_step,
                          !.int_src = tmp_solutions]
  /\ UNCHANGED << parameters, am_ret, exit_code, err_report, meshVars, tmp_solutions, sol_trans,
                  timeVars, memberVars, monitorVars, searchVars >>

\* run, lines 664-665: the condition under which the loop adapts the mesh
AdaptDueMut == parameters.n_adaptive_refinements > 0
AdaptDue ==
  /\ parameters.n_adaptive_refinements > 0
  /\ step_number % parameters.adaptive_refinement_interval = 0

LoopAdaptTest ==
  /\ pc = "adapt_test"
  /\ IF AdaptDue
       THEN pc' = "am_estimate" /\ am_ret' = "loop"
       ELSE pc' = AfterAdapt /\ am_ret' = "none"
  /\ UNCHANGED << parameters, exit_code, err_report, meshVars, vecVars, timeVars, memberVars,
                  monitorVars, searchVars, hist >>

\* run, line 672: time_step_analysis reads solutions through dof_handler
LoopAnalysis ==
  /\ pc = "analysis"
  /\ pc' = AfterAnalysis
  /\ hist' = [hist EXCEPT !.stale = @ \/ ~ ReadOK(solutions)]
  /\ UNCHANGED << parameters, am_ret, exit_code, err_report, meshVars, vecVars, timeVars,
                  memberVars, monitorVars, searchVars >>

\* run, lines 674-675: if (time_control.at_tick()) output_results()
LoopOutput ==
  /\ pc = "tick_test"
  /\ pc' = AfterOutput
  /\ IF tick
       THEN \E e \in ErrInputs, m \in MagInputs : output_results(e, m)
       ELSE UNCHANGED << monitorVars, time, hist >>
  /\ UNCHANGED << parameters, am_ret, exit_code, err_report, meshVars, vecVars, step_number,
                  time_step, tick, memberVars, searchVars >>

\* wtime / time_control.get_step_number() (line 684): a double divided by the step
\* count, 0.0 / 0 when no step was made
Average(steps) == IF steps > 0 THEN "number" ELSE "nan"

\* run, lines 679-691: the report of the step count and of the timings
RunReport ==
  /\ pc = "report"
  /\ pc' = "run_return"
  /\ hist' = [hist EXCEPT !.rep_steps = step_number,
                          !.rep_avg = Average(step_number)]
  /\ UNCHANGED << parameters, am_ret, exit_code, err_report, meshVars, vecVars, timeVars,
                  memberVars, monitorVars, searchVars >>

\* ------------------------------------------------------------ adapt_mesh
\* lines 258-259: the error estimate reads solutions and tmp_solutions
AmEstimate ==
  /\ pc = "am_estimate"
  /\ pc' = "am_mark"
  /\ error_per_cell' \in [Cells -> IndVals]
  /\ hist' = [hist EXCEPT !.stale = @ \/ ~ ReadOK(solutions) \/ ~ ReadOK(tmp_solutions),
                          !.after_diverged = @ \/ hist.diverged]
  /\ UNCHANGED << parameters, am_ret, exit_code, err_report, levels, mesh_gen, dof_gen,
                  refine_flags, coarsen_flags, vecVars, timeVars, memberVars,
                  monitorVars, searchVars >>

\* line 264, set_refinement_indicators: refine_and_coarsen_fixed_number flags the
\* cells whose indicator is at least a refine threshold for refinement and, of the
\* others, those whose indicator is at most a coarsen threshold for coarsening; the
\* thresholds depend on the ranking over all cells of the mesh and are inputs here
\* (NoThreshold: no cell is flagged)
NoThreshold == -1
MarkRefine(tr) == IF tr = NoThreshold THEN {}
                  ELSE {c \in Cells : error_per_cell[c] >= tr}
MarkCoarsen(tr, tc) == IF tc = NoThreshold THEN {}
                       ELSE {c \in Cells : error_per_cell[c] <= tc} \ MarkRefine(tr)

AmMark ==
  /\ pc = "am_mark"
  /\ pc' = "am_adjust"
  /\ \E tr \in IndVals \cup {NoThreshold}, tc \in IndVals \cup {NoThreshold} :
       /\ refine_flags' = MarkRefine(tr)
       /\ coarsen_flags' = MarkCoarsen(tr, tc)
  /\ UNCHANGED << parameters, am_ret, exit_code, err_report, levels, mesh_gen, dof_gen,
                  error_per_cell, vecVars, timeVars, memberVars, monitorVars,
                  searchVars, hist >>

min_level == parameters.n_refinements
max_level == min_level + parameters.n_adaptive_refinements

\* lines 275-285, the body of the flag loop for one cell: r and k are the cell's
\* refine and coarsen flag on entry, the result is the pair of flags on exit
AdjustFlagsKeepRefineMut(c, r, k) ==
  LET r1 == IF r /\ levels[c] = max_level THEN FALSE ELSE r
      k1 == IF ~ (r /\ levels[c] = max_level) /\ k /\ levels[c] = min_level
              THEN FALSE ELSE k
      k2 == IF 20 * error_per_cell[c] < maximal_cellwise_error_init
              THEN TRUE ELSE k1
  IN  << r1, k2 >>
AdjustFlagsMut(c, r, k) ==
  LET r1 == IF r /\ levels[c] = max_level THEN FALSE ELSE r
      k1 == IF ~ (r /\ levels[c] = max_level) /\ k /\ levels[c] = min_level
              THEN FALSE ELSE k
  IN  << r1, k1 >>
AdjustFlags(c, r, k) ==
  LET r1 == IF r /\ levels[c] = max_level THEN FALSE ELSE r
      k1 == IF ~ (r /\ levels[c] = max_level) /\ k /\ levels[c] = min_level
              THEN FALSE ELSE k
      r2 == IF r1 /\ 10 * error_per_cell[c] < maximal_cellwise_error_init
              THEN FALSE ELSE r1
      k2 == IF 20 * error_per_cell[c] < maximal_cellwise_error_init
              THEN TRUE ELSE k1
  IN  << r2, k2 >>

\* lines 271-286: the loop over the locally owned cells
AmAdjust ==
  /\ pc = "am_adjust"
  /\ pc' = "am_prepare"
  /\ refine_flags' = {c \in Cells :
                        AdjustFlags(c, c \in refine_flags, c \in coarsen_flags)[1]}
  /\ coarsen_flags' = {c \in Cells :
                        AdjustFlags(c, c \in refine_flags, c \in coarsen_flags)[2]}
  /\ UNCHANGED << parameters, am_ret, exit_code, err_report, levels, mesh_gen, dof_gen,
                  error_per_cell, vecVars, timeVars, memberVars, monitorVars,
                  searchVars, hist >>

\* lines 296-299 (304-308 without p4est): the SolutionTransfer takes the state of
\* solutions, laid out for the indexing of the mesh before the rebuild
AmPrepare ==
  /\ pc = "am_prepare"
  /\ pc' = "am_execute"
  /\ sol_trans' = solutions
  /\ error_per_cell' = [c \in Cells |-> 0]
  /\ hist' = [hist EXCEPT !.stale = @ \/ ~ ReadOK(solutions)]
  /\ UNCHANGED << parameters, am_ret, exit_code, err_report, levels, mesh_gen, dof_gen,
                  refine_flags, coarsen_flags, solutions, tmp_solutions, timeVars,
                  memberVars, monitorVars, searchVars >>

\* execute_coarsening_and_refinement for one cell: a flagged cell changes by one level
NewLevel(c) ==
  IF c \in refine_flags THEN levels[c] + 1
  ELSE IF c \in coarsen_flags /\ levels[c] > 0 THEN levels[c] - 1
  ELSE levels[c]

\* line 300 (309): the mesh is rebuilt; the vectors and the DoF handler still have
\* the old indexing
AmExecute ==
  /\ pc = "am_execute"
  /\ pc' = "am_make_dofs"
  /\ levels' = [c \in Cells |-> NewLevel(c)]
  /\ mesh_gen' = mesh_gen + 1
  /\ refine_flags' = {}
  /\ coarsen_flags' = {}
  /\ UNCHANGED << parameters, am_ret, exit_code, err_report, dof_gen, error_per_cell, vecVars,
                  timeVars, memberVars, monitorVars, searchVars, hist >>

\* line 301 (310): make_dofs()
AmMakeDofs ==
  /\ pc = "am_make_dofs"
  /\ pc' = "am_interpolate"
  /\ make_dofs
  /\ UNCHANGED << parameters, am_ret, exit_code, err_report, levels, mesh_gen, refine_flags,
                  coarsen_flags, error_per_cell, sol_trans, time, step_number, tick,
                  memberVars, monitorVars, searchVars, hist >>

\* line 302 (311): sol_trans.interpolate writes the stored state into solutions,
\* laid out for the indexing solutions has now
AmInterpolate ==
  /\ pc = "am_interpolate"
  /\ pc' = "am_set_time_step"
  /\ solutions' = Vec(solutions.gen, sol_trans.kind, sol_trans.step)
  /\ sol_trans' = EmptyVec
  /\ hist' = [hist EXCEPT !.stale = @ \/ ~ ReadOK(solutions)
                                       \/ ~ (sol_trans.gen = mesh_gen - 1)]
  /\ UNCHANGED << parameters, am_ret, exit_code, err_report, meshVars, tmp_solutions, timeVars,
                  memberVars, monitorVars, searchVars >>

\* line 314: time_control.set_time_step(compute_time_step_size(...)), and the return
\* to the caller (line 588 in the pre-refinement loop, line 668 in the time loop)
AmSetTimeStep ==
  /\ pc = "am_set_time_step"
  /\ pc' = IF am_ret = "prerefine" THEN "prerefine_project" ELSE AfterAdapt
  /\ am_ret' = "none"
  /\ time_step' = compute_time_step_size
  /\ hist' = [hist EXCEPT !.adapted = IF am_ret = "loop" THEN step_number ELSE @,
                          !.pre_adapts = IF am_ret = "prerefine" THEN @ + 1 ELSE @]
  /\ UNCHANGED << parameters, exit_code, err_report, meshVars, vecVars, time, step_number, tick,
                  memberVars, monitorVars, searchVars >>

\* ------------------------------------------------------------ run_cfl_stability_analysis
\* std::pow(fe_degree, 1.5), for the degrees where it is an integer
Pow15(d) == CASE d = 1 -> 1 [] d = 4 -> 8

\* lines 699-701: cfl_test = cfl_number, cfl_closest_stable = -0.1,
\* cfl_closest_instable = 100.0
SearchInit ==
  /\ pc = "search_init"
  /\ pc' = "search_loop"
  /\ i' = 0
  /\ cfl_test' = parameters.cfl_number
  /\ cfl_closest_stable' = - (scale \div 10)
  /\ cfl_closest_instable' = 100 * scale
  /\ hist' = [hist EXCEPT !.cfl0 = parameters.cfl_number]
  /\ UNCHANGED << parameters, am_ret, exit_code, err_report, meshVars, vecVars, timeVars,
                  memberVars, monitorVars, scale, simu_was_stable >>

\* line 703: for (i = 0; i < 12; ++i)
SearchLoop ==
  /\ pc = "search_loop"
  /\ pc' = IF i < SearchIterations THEN "search_run" ELSE "search_report"
  /\ UNCHANGED << parameters, am_ret, exit_code, err_report, meshVars, vecVars, timeVars,
                  memberVars, monitorVars, searchVars, hist >>

\* lines 713-716: a LinearizedEulerProblem is constructed and run (followed in detail
\* for the first MaxRuns iterations)
SearchRun ==
  /\ pc = "search_run"
  /\ i < MaxRuns
  /\ pc' = "construct"
  /\ UNCHANGED << parameters, am_ret, exit_code, err_report, meshVars, vecVars, timeVars,
                  memberVars, monitorVars, searchVars, hist >>

\* the return from run: to line 717, simu_was_stable = we_problem.cfl_stable(), in
\* the search, and to line 808 in main otherwise; the block that declares we_problem
\* ends there and the object is destroyed
RunReturn ==
  /\ pc = "run_return"
  /\ IF parameters.cfl_stability_analysis
       THEN /\ pc' = "search_update"
            /\ simu_was_stable' = cfl_stable
            /\ hist' = [hist EXCEPT !.runs = @ + 1, !.live = @ - 1,
                                    !.verdicts = @ \cup {<< parameters.cfl_number,
                                                            scale, cfl_stable >>}]
       ELSE /\ pc' = "main_finish"
            /\ hist' = [hist EXCEPT !.live = @ - 1]
            /\ UNCHANGED simu_was_stable
  /\ UNCHANGED << parameters, am_ret, exit_code, err_report, meshVars, vecVars, timeVars,
                  memberVars, monitorVars, i, cfl_test, cfl_closest_stable,
                  cfl_closest_instable, scale >>

\* lines 713-724 with the run as one step: its verdict is an input
SearchRunVerdict ==
  /\ pc = "search_run"
  /\ pc' = "search_update"
  /\ \E verdict \in BOOLEAN :
       /\ simu_was_stable' = verdict
       /\ hist' = [hist EXCEPT !.runs = @ + 1,
                               !.verdicts = @ \cup {<< parameters.cfl_number,
                                                       scale, verdict >>}]
  /\ UNCHANGED << parameters, am_ret, exit_code, err_report, meshVars, vecVars, timeVars,
                  memberVars, monitorVars, i, cfl_test, cfl_closest_stable,
                  cfl_closest_instable, scale >>

\* lines 726-729: the bound that the verdict names becomes the candidate
StableAfterUpdateMut == cfl_closest_stable
StableAfterUpdate == IF simu_was_stable THEN cfl_test ELSE cfl_closest_stable
InstableAfterUpdateMut == cfl_closest_instable
InstableAfterUpdate == IF simu_was_stable THEN cfl_closest_instable ELSE cfl_test

SearchUpdate ==
  /\ pc = "search_update"
  /\ pc' = "search_next"
  /\ cfl_closest_stable' = StableAfterUpdate
  /\ cfl_closest_instable' = InstableAfterUpdate
  /\ hist' = [hist EXCEPT !.updates = @ + 1,
                          !.prev_bounds = << cfl_closest_stable, cfl_closest_instable >>,
                          !.thetas = {th \in @ : simu_was_stable
                                                   <=> (20 * cfl_test < th * scale)}]
  /\ UNCHANGED << parameters, am_ret, exit_code, err_report, meshVars, vecVars, timeVars,
                  memberVars, monitorVars, i, cfl_test, scale, simu_was_stable >>

\* lines 731-741: which rule gives the next candidate
NextRuleMut ==
  IF cfl_closest_stable < 0 THEN "third"
  ELSE IF cfl_closest_instable > 99 * scale THEN "increment"
  ELSE "midpoint"
NextRule ==
  IF cfl_closest_stable < 0
    THEN IF cfl_test > 3 * Pow15(parameters.fe_degree) * (scale \div 20)
           THEN "decrement" ELSE "third"
  ELSE IF cfl_closest_instable > 99 * scale THEN "increment"
  ELSE "midpoint"

\* the denominator after the rule: a division multiplies it
NextScale == CASE NextRule = "third" -> 3 * scale
               [] NextRule = "midpoint" -> 2 * scale
               [] OTHER -> scale

\* the candidate after the rule, over NextScale
NextCandidateMut == CASE NextRule = "decrement" -> cfl_test - scale \div 10
                      [] NextRule = "third" -> cfl_test
                      [] NextRule = "increment" -> cfl_test + scale \div 20
                      [] NextRule = "midpoint" -> cfl_closest_instable + cfl_closest_instable
NextCandidate == CASE NextRule = "decrement" -> cfl_test - scale \div 10
                   [] NextRule = "third" -> cfl_test
                   [] NextRule = "increment" -> cfl_test + scale \div 20
                   [] NextRule = "midpoint" -> cfl_closest_instable + cfl_closest_stable

\* line 743: parameters_in.cfl_number = cfl_test
NextCflNumberMut == parameters.cfl_number
NextCflNumber == NextCandidate

\* lines 731-743 and the ++i of line 703
SearchNext ==
  /\ pc = "search_next"
  /\ pc' = "search_loop"
  /\ scale' = NextScale
  /\ cfl_test' = NextCandidate
  /\ cfl_closest_stable' = cfl_closest_stable * (NextScale \div scale)
  /\ cfl_closest_instable' = cfl_closest_instable * (NextScale \div scale)
  /\ parameters' = [parameters EXCEPT !.cfl_number = NextCflNumber]
  /\ i' = i + 1
  /\ hist' = [hist EXCEPT !.prev_cand = cfl_test, !.prev_scale = scale]
  /\ UNCHANGED << am_ret, exit_code, err_report, meshVars, vecVars, timeVars, memberVars,
                  monitorVars, simu_was_stable >>

\* lines 746-754: the final report, and the return to main
SearchReport ==
  /\ pc = "search_report"
  /\ pc' = "main_finish"
  /\ UNCHANGED << parameters, am_ret, exit_code, err_report, meshVars, vecVars, timeVars,
                  memberVars, monitorVars, searchVars, hist >>

\* ------------------------------------------------------------ specifications
RunNext ==
  \/ Construct \/ RunMakeGrid \/ RunSetupTime \/ RunSelectOp \/ RunMakeDofs
  \/ RunProjectInitial \/ RunPrerefineTest \/ RunPrerefineProject
  \/ RunInitialOutput \/ RunSelectIntegrator
  \/ LoopTest \/ LoopAdvance \/ LoopSwap \/ LoopIntegrate \/ LoopAdaptTest
  \/ LoopAnalysis \/ LoopOutput \/ RunReport \/ RunReturn
  \/ AmEstimate \/ AmMark \/ AmAdjust \/ AmPrepare \/ AmExecute \/ AmMakeDofs
  \/ AmInterpolate \/ AmSetTimeStep

\* the program with every run followed step by step
Next ==
  \/ MainReadFails \/ MainDispatch \/ MainFinish \/ MainCatch \/ MainCatchAll
  \/ SearchInit \/ SearchLoop \/ SearchRun \/ SearchUpdate \/ SearchNext
  \/ RunNext

Spec == Init /\ [][Next]_vars

\* the same, for a program that is not suspended: main is one sequential thread
FairSpec == Spec /\ WF_vars(Next)

\* single runs that pre-refine once or twice and go on to adapt in the time loop
PrerefineVals == {1, 2}
PrerefineParameterSpace ==
  [ dimension : {2}, fe_degree : {1}, integ_type : {"lsrk45reg2"},
    cfl_stability_analysis : {FALSE}, cfl_number : CflVals,
    n_refinements : RefinementVals, n_adaptive_refinements : PrerefineVals,
    adaptive_refinement_interval : IntervalVals,
    final_time : FinalTimeVals, output_every_time : OutputEveryVals,
    max_time_steps : {MaxSteps} ]

PrerefineInit == parameters \in PrerefineParameterSpace /\ InitRest

PrerefineNext == MainDispatch \/ MainFinish \/ RunNext

PrerefineSpec == PrerefineInit /\ [][PrerefineNext]_vars

\* the CFL search with each run taken as one step that delivers a verdict
SearchParameterSpace ==
  [ dimension : {2}, fe_degree : SearchDegreeVals, integ_type : {"lsrk45reg2"},
    cfl_stability_analysis : {TRUE}, cfl_number : SearchCflVals,
    n_refinements : {0}, n_adaptive_refinements : {0},
    adaptive_refinement_interval : {1},
    final_time : FinalTimeVals, output_every_time : OutputEveryVals,
    max_time_steps : {MaxSteps} ]

SearchInitState == parameters \in SearchParameterSpace /\ InitRest

SearchNextStep ==
  \/ MainDispatch \/ MainFinish
  \/ SearchInit \/ SearchLoop \/ SearchRunVerdict \/ SearchUpdate \/ SearchNext
  \/ SearchReport

SearchSpec == SearchInitState /\ [][SearchNextStep]_vars

\* the same, for a search that is not suspended: main is one sequential thread
FairSearchSpec == SearchSpec /\ WF_vars(SearchNextStep)

\* ------------------------------------------------------------ properties
analysis_mode == parameters.cfl_stability_analysis

\* the divergence test of the specification, on the observations of the run: the last
\* error against the error and the magnitude of the first output
ObservedDivergent ==
  \/ hist.last_obs > 100 * hist.first_obs[1]
  \/ 2 * hist.last_obs > 3 * hist.first_obs[2]

\* C1: in a monitored run with at least one output evaluation, cfl_stable() is false
\* exactly when the last observed error exceeds 100 times the first observed error or
\* 1.5 times the first observed magnitude; so after the observations 1 and 1, 2 with
\* first magnitude 10 it is true and after 1, 2, 150 it is false.
C1_VerdictFromRecord ==
  (analysis_mode /\ hist.n_outputs >= 1) => (cfl_stable <=> ~ ObservedDivergent)

\* C1 witness: the observations 1, 2, 150 with first magnitude 10 have been made and
\* cfl_stable() is false
C1_Witness ==
  /\ analysis_mode
  /\ hist.n_outputs = 3
  /\ hist.first_obs = << 1, 10 >>
  /\ hist.prev_obs = 2
  /\ hist.last_obs = 150
  /\ ~ cfl_stable

\* C2 as claimed: in every run, once an output has been evaluated, first_error_val and
\* first_mangnitude_val have been assigned exactly once.
C2_LatchedInEveryRun ==
  hist.n_outputs >= 1 => hist.latches = 1

\* C2 amended: in a run of the stability analysis first_error_val and
\* first_mangnitude_val are assigned exactly once, at the first output evaluation, and
\* hold the first observation from then on; in any other run they are never assigned;
\* in every run last_error_val holds the error of the latest output evaluation.
C2_LatchedOnceWhenMonitored ==
  /\ analysis_mode =>
       /\ hist.latches = (IF hist.n_outputs = 0 THEN 0 ELSE 1)
       /\ hist.n_outputs >= 1 =>
            /\ first_error_val = hist.first_obs[1]
            /\ first_mangnitude_val = hist.first_obs[2]
  /\ ~ analysis_mode => hist.latches = 0
  /\ hist.n_outputs >= 1 => last_error_val = hist.last_obs

\* C2 witness: a monitored run after three outputs, whose last error differs from the
\* latched first error
C2_Witness ==
  /\ analysis_mode
  /\ hist.n_outputs = 3
  /\ hist.latches = 1
  /\ first_error_val = 2
  /\ hist.prev_obs = 1
  /\ last_error_val = 0

\* the divergence test on the record held by the problem object (in a run that is not
\* monitored first_error_val is still -1, which makes the first comparison true
\* whatever first_mangnitude_val holds)
RecordDivergent ==
  \/ last_error_val > 100 * first_error_val
  \/ 2 * last_error_val > 3 * first_mangnitude_val

\* the positions outside LinearizedEulerProblem::run
OutsideRun == {"main", "search_init", "search_loop", "search_run", "search_update",
               "search_next", "search_report", "construct", "main_finish",
               "exception", "unknown_exception", "aborted", "exited"}
InRun == pc \notin OutsideRun

\* the positions of run after the time loop, or before its first or next test
LoopLeft == {"select_integrator", "loop_test", "report", "run_return"}

C4_VerdictIffDeclared ==
  /\ (analysis_mode /\ pc = "search_update") => (simu_was_stable <=> ~ hist.declared)
  /\ hist.declared => pc \in LoopLeft \cup (OutsideRun \ {"exception", "unknown_exception", "aborted"})

\* C4 witness: the verdict of a run that declared divergence in the time loop has been
\* read and is unstable
C4_Witness ==
  /\ pc = "search_update"
  /\ hist.declared
  /\ hist.n_outputs >= 2
  /\ ~ simu_was_stable


\* the positions at which the mesh of the run has been built (make_grid has returned)
MeshBuilt == InRun /\ pc # "make_grid"

\* C5 as claimed: after any sequence of adaptation events every cell's level stays within
\* [min_level, max_level], with min_level = n_refinements and
\* max_level = n_refinements + n_adaptive_refinements
C5_LevelsWithinBounds ==
  MeshBuilt => \A c \in Cells : min_level <= levels[c] /\ levels[c] <= max_level

\* the positions inside adapt_mesh, and those of the loop body after the integration
AdaptPositions == {"am_estimate", "am_mark", "am_adjust", "am_prepare", "am_execute",
                   "am_make_dofs", "am_interpolate", "am_set_time_step"}
AfterIntegration == {"adapt_test", "analysis", "tick_test"}

\* C6: generation consistency. No read of solutions or tmp_solutions by integration,
\* error estimation, projection, snapshot, interpolation or output went through an
\* indexing of another mesh generation; at every position whose next step reads a
\* vector, the vector, the DoF handler and the mesh are of one generation; and inside
\* adapt_mesh the snapshot is taken on the old mesh, the rebuild comes next while the
\* DoF handler and the vectors still have the old indexing, then make_dofs gives zero
\* vectors of the new generation, then the snapshot of the previous generation is
\* interpolated into solutions
C6_GenerationConsistency ==
  /\ ~ hist.stale
  /\ pc \in {"am_estimate", "integrate"} => ReadOK(solutions) /\ ReadOK(tmp_solutions)
  /\ pc \in {"am_prepare", "prerefine_project", "initial_output", "analysis", "tick_test"}
       => ReadOK(solutions)
  /\ pc = "am_execute" => /\ sol_trans.kind \in {"initial", "step"}
                          /\ sol_trans.gen = mesh_gen
                          /\ dof_gen = mesh_gen
  /\ pc = "am_make_dofs" => /\ mesh_gen = dof_gen + 1
                            /\ sol_trans.gen = dof_gen
                            /\ solutions.gen = dof_gen
  /\ pc = "am_interpolate" => /\ dof_gen = mesh_gen
                              /\ solutions = Vec(mesh_gen, "zero", 0)
                              /\ tmp_solutions = Vec(mesh_gen, "zero", 0)
                              /\ sol_trans.gen = mesh_gen - 1
  /\ pc = "am_set_time_step" => /\ ReadOK(solutions)
                                /\ solutions.kind \in {"initial", "step"}
                                /\ sol_trans = EmptyVec

\* an in-loop adaptation after a pre-refinement pass has rebuilt the mesh for the
\* second time and the interpolated state of the step is about to be read
C6_Witness ==
  /\ pc = "analysis"
  /\ mesh_gen >= 2
  /\ hist.adapted = step_number
  /\ solutions = Vec(mesh_gen, "step", step_number)
  /\ dof_gen = mesh_gen

\* C7: the order of the loop body. The swap and the integration of step N come after
\* advance_time_step and before anything else of step N; the integration reads the
\* state of step N-1 from tmp_solutions; an in-loop adaptation runs only when the
\* integration of its step is complete, and when it is due it is complete before the
\* analysis and the output of the step; an output of step N is evaluated on the mesh
\* and state left by the adaptation of step N; the loop test follows the output
C7_LoopOrder ==
  /\ pc \in {"swap", "integrate"} =>
        /\ hist.integrated = step_number - 1
        /\ hist.out_step < step_number
  /\ pc \in AfterIntegration =>
        /\ hist.integrated = step_number
        /\ hist.int_src.step = step_number - 1
        /\ hist.out_step < step_number
  /\ pc = "adapt_test" => tmp_solutions = hist.int_src /\ hist.adapted < step_number
  /\ (pc \in AdaptPositions /\ am_ret = "loop") =>
        /\ hist.integrated = step_number
        /\ hist.adapted < step_number
        /\ hist.out_step < step_number
  /\ (pc \in {"analysis", "tick_test"} /\ AdaptDue) => hist.adapted = step_number
  /\ (pc \in {"analysis", "tick_test"} /\ ~ AdaptDue) => hist.adapted < step_number
  /\ (pc = "loop_test" /\ step_number >= 1) =>
        /\ hist.integrated = step_number
        /\ AdaptDue => hist.adapted = step_number
        /\ tick => hist.out_step = step_number /\ hist.out_gen = mesh_gen
        /\ ~ tick => hist.out_step < step_number
        /\ solutions = Vec(mesh_gen, "step", step_number)

\* a step whose adaptation rebuilt the mesh and whose output was then evaluated
C7_Witness ==
  /\ pc = "loop_test"
  /\ step_number >= 1
  /\ AdaptDue
  /\ hist.adapted = step_number
  /\ hist.out_step = step_number
  /\ hist.out_gen = mesh_gen
  /\ mesh_gen >= 2

\* the positions of the search between two runs, and those after the loop
BetweenRuns == {"search_loop", "search_run"}
SearchOver == {"search_report", "main_finish", "exited"}

\* the bookkeeping of the search: one bound update per finished run, and after the
\* update exactly the bound named by the verdict is the candidate while the other
\* bound is what it was
OneUpdatePerRun ==
  /\ hist.runs <= SearchIterations
  /\ pc \in BetweenRuns => hist.runs = i /\ hist.updates = i
  /\ pc = "search_update" => hist.runs = i + 1 /\ hist.updates = i
  /\ pc = "search_next" =>
        /\ hist.runs = i + 1 /\ hist.updates = i + 1
        /\ \/ /\ simu_was_stable
              /\ cfl_closest_stable = cfl_test
              /\ cfl_closest_instable = hist.prev_bounds[2]
           \/ /\ ~ simu_was_stable
              /\ cfl_closest_instable = cfl_test
              /\ cfl_closest_stable = hist.prev_bounds[1]
  /\ pc \in SearchOver =>
        /\ i = SearchIterations
        /\ hist.runs = SearchIterations
        /\ hist.updates = SearchIterations

\* C8: whatever the verdicts, the search makes exactly 12 runs, updates exactly one of
\* the two bounds after each of them, and then gives the final report and ends
C8_TwelveRunsThenReport == [] OneUpdatePerRun /\ <> (pc = "exited" /\ exit_code = 0)

\* the report is reached after 12 runs of which some were stable and some were not
C8_Witness ==
  /\ pc = "search_report"
  /\ hist.runs = SearchIterations
  /\ cfl_closest_stable >= 0
  /\ cfl_closest_instable <= 99 * scale

\* the integer d with d * d = fe_degree^3, that is fe_degree^1.5
DegreeScaling ==
  CHOOSE d \in 1..8 :
    d * d = parameters.fe_degree * parameters.fe_degree * parameters.fe_degree

\* C9: the candidate after a run, from the candidate before it (prev over the
\* denominator prev_scale; k is the factor by which the denominator has grown):
\* without a stable bound, prev / 3 if prev / degree^1.5 <= 0.15 and prev - 0.1
\* otherwise; else without an unstable bound, prev + 0.05; else the midpoint of the
\* two bounds. The candidate is what the next run is given as cfl_number
C9_NextCandidateRule ==
  (pc = "search_loop" /\ i >= 1) =>
     LET prev == hist.prev_cand
         k    == scale \div hist.prev_scale
     IN  /\ scale = k * hist.prev_scale
         /\ parameters.cfl_number = cfl_test
         /\ IF cfl_closest_stable < 0
              THEN IF 20 * prev <= 3 * DegreeScaling * hist.prev_scale
                     THEN 3 * cfl_test = prev * k
                     ELSE 10 * cfl_test = (10 * prev - hist.prev_scale) * k
            ELSE IF cfl_closest_instable > 99 * scale
              THEN 20 * cfl_test = (20 * prev + hist.prev_scale) * k
            ELSE 2 * cfl_test = cfl_closest_instable + cfl_closest_stable

\* the last candidate is a midpoint, in a search that divided by 3 before it found
\* its stable bound
C9_Witness ==
  /\ pc = "search_loop"
  /\ i = SearchIterations
  /\ scale % 3 = 0
  /\ hist.prev_scale * 2 = scale
  /\ cfl_closest_stable >= 0
  /\ cfl_closest_instable <= 99 * scale
  /\ cfl_test * 2 = (cfl_closest_instable + cfl_closest_stable)

\* C10: at the end of a search whose verdicts all agree with "stable exactly below
\* theta", a start below theta leaves closest_stable different from its sentinel -0.1
\* and a start at or above theta leaves closest_instable different from its
\* sentinel 100
C10_BoundFoundOnStartSide ==
  pc = "search_report" =>
    \A th \in hist.thetas :
       /\ 20 * hist.cfl0 < th * InitScale => cfl_closest_stable # - (scale \div 10)
       /\ 20 * hist.cfl0 >= th * InitScale => cfl_closest_instable # 100 * scale

\* a search from 2.0 against the limit 0.2: it ends with an unstable bound found
C10_Witness ==
  /\ pc = "search_report"
  /\ 4 \in hist.thetas
  /\ hist.cfl0 = 40
  /\ cfl_closest_instable # 100 * scale

\* the positions of the body of the time loop (adapt_mesh included when called from it)
LoopBody == {"advance", "swap", "integrate", "adapt_test", "analysis", "tick_test"}
InLoopBody == pc \in LoopBody \/ (pc \in AdaptPositions /\ am_ret = "loop")

\* the time loop is entered only while done() is false and never makes more than
\* max_time_steps iterations; it is left at the first test at which done() holds
LoopWithinMaxSteps ==
  /\ InRun => step_number <= parameters.max_time_steps
  /\ pc = "advance" => /\ step_number < parameters.max_time_steps
                       /\ time < parameters.final_time * scale
  /\ (InLoopBody /\ pc # "advance") => hist.integrated >= step_number - 1
  /\ pc = "report" => TimeControlDone

\* C11: the time loop of a run always terminates: every test of the loop is followed
\* by the report of the run, the loop body is entered only while
\* current_time < final_time and step_number < max_steps, and the step number never
\* exceeds max_steps, whatever step sizes the adaptations set
C11_LoopTerminates ==
  [] LoopWithinMaxSteps /\ ((pc = "loop_test") ~> (pc = "report"))

\* a run that used all max_steps iterations although adaptations changed its step
\* size, and has left the loop before final_time
C11_Witness ==
  /\ pc = "report"
  /\ step_number = parameters.max_time_steps
  /\ time < parameters.final_time * scale
  /\ hist.adapted >= 1
  /\ time_step # hist.adv_dt

\* a configuration the program does not support
Unsupported ==
  \/ parameters.dimension \notin {2, 3}
  \/ parameters.fe_degree \notin 1..5
  \/ parameters.integ_type \notin {"expleuler", "classrk4", "lsrk45reg2", "lsrk33reg2",
                                   "lsrk45reg3", "lsrk59reg2", "ssprk"}

\* C12: with an unsupported dimension, degree or scheme no time step, adaptation or
\* output is ever performed, the vectors are never set up, main never returns 0, and the
\* program is never past the point of the failure: it ends at the handler of main
\* (exit code 1) or at the abort of the failed assertion
C12_UnsupportedIsFatal ==
  Unsupported =>
     /\ hist.n_outputs = 0 /\ hist.integrated = 0 /\ hist.adapted = 0
     /\ step_number = 0 /\ mesh_gen = 0
     /\ solutions = EmptyVec /\ tmp_solutions = EmptyVec
     /\ exit_code # 0
     /\ pc \in {"main", "search_init", "search_loop", "search_run", "construct",
                "make_grid", "setup_time", "select_op", "make_dofs",
                "exception", "unknown_exception", "aborted", "exited"}
     /\ pc = "make_dofs" => ~ op_set
     /\ pc = "exited" => exit_code = 1 /\ err_report # "none"

\* an unknown scheme was found by run (line 571) and main has returned 1
C12_Witness ==
  /\ parameters.dimension = 2
  /\ parameters.integ_type = "unknown"
  /\ hist.thrown = "std"
  /\ pc = "exited"
  /\ exit_code = 1
  /\ time_step > 0

\* C13: when main has returned, the exit code is 0 exactly if no exception left the
\* try block; a std::exception gives exit code 1 and the report "Exception on
\* processing", any other exception gives exit code 1 and the report "Unknown
\* exception", and the two reports differ
C13_ExitCodeAndReport ==
  /\ exit_code \in {-1, 0, 1}
  /\ pc = "exited" <=> exit_code # -1
  /\ pc = "exited" =>
       /\ exit_code = 0 <=> hist.thrown = "none"
       /\ hist.thrown = "none" => err_report = "none"
       /\ hist.thrown = "std" => exit_code = 1 /\ err_report = "Exception on processing: "
       /\ hist.thrown = "other" => exit_code = 1 /\ err_report # "none"
                                   /\ err_report # "Exception on processing: "
  /\ pc # "exited" => err_report = "none"

\* an exception that is no std::exception was caught and main has returned 1
C13_Witness ==
  /\ pc = "exited"
  /\ hist.thrown = "other"
  /\ exit_code = 1
  /\ err_report = "Unknown exception!"

\* a run is behind its time loop without final_time or max_steps having been reached
\* by its time steps
LeftEarly ==
  /\ pc \in {"report", "run_return"}
  /\ hist.stepped < parameters.final_time * scale
  /\ step_number < parameters.max_time_steps

\* the first half of C14: a run is behind its loop early only if an output evaluation
\* declared divergence (line 475)
EarlyExitOnlyByDivergence == LeftEarly => hist.declared

\* C14 as claimed: a run leaves the time loop early only because an output evaluation
\* flagged divergence, and such a run still gives the report with its step count and a
\* valid wall time per step
C14_EarlyExitReportsValid ==
  /\ EarlyExitOnlyByDivergence
  /\ (LeftEarly /\ pc = "run_return") =>
        /\ hist.rep_steps = step_number
        /\ hist.rep_avg = "number"

\* the positions of step n behind its adaptation decision
StepDecided == step_number >= 1 /\ pc \in {"analysis", "tick_test", "loop_test"}

\* C15: in the time loop step n is followed by an adaptation exactly if
\* n_adaptive_refinements > 0 and n mod adaptive_refinement_interval = 0; then the mesh
\* has been rebuilt once and the DoF indexing follows it; on every other step the mesh,
\* the DoF indexing and the step size are what they were when the step began
C15_AdaptExactlyWhenDue ==
  StepDecided =>
     IF parameters.n_adaptive_refinements > 0
        /\ step_number % parameters.adaptive_refinement_interval = 0
       THEN /\ hist.adapted = step_number
            /\ mesh_gen = hist.adv_gen + 1
            /\ dof_gen = mesh_gen
       ELSE /\ hist.adapted < step_number
            /\ mesh_gen = hist.adv_gen
            /\ dof_gen = hist.adv_gen
            /\ time_step = hist.adv_dt

\* step 1 of a run with interval 2 went without adaptation and step 2 was adapted
C15_Witness ==
  /\ pc = "loop_test"
  /\ parameters.adaptive_refinement_interval = 2
  /\ step_number = 2
  /\ hist.adapted = 2
  /\ mesh_gen = 2

\* the flag-adjustment pass (lines 271-286) has finished and the flags are as the mesh
\* rebuild will find them
FlagsAdjusted == pc = "am_prepare"

\* C16 as claimed: after the flag-adjustment pass no cell at max_level carries a refine
\* flag and no cell at min_level carries a coarsen flag
C16_FlagsClamped ==
  FlagsAdjusted =>
     \A c \in Cells :
        /\ ~ (c \in refine_flags /\ levels[c] = max_level)
        /\ ~ (c \in coarsen_flags /\ levels[c] = min_level)

\* the half of C16 that the code keeps: no cell at max_level carries a refine flag
RefineClamped ==
  FlagsAdjusted => \A c \in Cells : ~ (c \in refine_flags /\ levels[c] = max_level)

\* C17: after the flag-adjustment pass no cell whose indicator is below
\* 0.1 * maximal_cellwise_error_init carries a refine flag, and every cell whose
\* indicator is below 0.05 * maximal_cellwise_error_init carries a coarsen flag
C17_SmallIndicatorFlags ==
  FlagsAdjusted =>
     \A c \in Cells :
        /\ 10 * error_per_cell[c] < maximal_cellwise_error_init => c \notin refine_flags
        /\ 20 * error_per_cell[c] < maximal_cellwise_error_init => c \in coarsen_flags

\* a cell at min_level carries a coarsen flag: the clamp clears such a flag when the
\* marking set it, so this one was forced by the small indicator; another cell with a
\* larger indicator carries none
C17_Witness ==
  /\ FlagsAdjusted
  /\ \E c \in Cells : /\ 20 * error_per_cell[c] < maximal_cellwise_error_init
                      /\ levels[c] = min_level
                      /\ c \in coarsen_flags
  /\ \E c \in Cells : /\ 20 * error_per_cell[c] >= maximal_cellwise_error_init
                      /\ c \notin coarsen_flags

\* the positions of run behind the pre-refinement loop of lines 585-599
PastPrerefinement ==
  \/ pc \in {"initial_output", "select_integrator", "loop_test", "report", "run_return"}
  \/ InLoopBody

\* C18: in a run with adaptive refinement exactly n_adaptive_refinements pre-refinement
\* passes (adapt_mesh, then the re-projection of the initial condition) are made, all
\* of them before the initial output; maximal_cellwise_error_init is assigned exactly
\* once, by the last pass, and keeps that value through the time loop
C18_PrerefineThenCapture ==
  (InRun /\ parameters.n_adaptive_refinements > 0) =>
     /\ hist.prepasses <= parameters.n_adaptive_refinements
     /\ hist.pre_adapts - hist.prepasses \in {0, 1}
     /\ hist.pre_adapts - hist.prepasses = 1 <=> pc = "prerefine_project"
     /\ hist.prepasses < parameters.n_adaptive_refinements =>
           /\ ~ PastPrerefinement
           /\ hist.n_outputs = 0
           /\ hist.max_assigns = 0
           /\ maximal_cellwise_error_init = -1
     /\ hist.prepasses = parameters.n_adaptive_refinements =>
           /\ hist.max_assigns = 1
           /\ maximal_cellwise_error_init = hist.max_captured
           /\ maximal_cellwise_error_init >= 0
     /\ PastPrerefinement => hist.prepasses = parameters.n_adaptive_refinements

\* a run of two pre-refinement passes that has adapted in its second time step
C18_Witness ==
  /\ parameters.n_adaptive_refinements = 2
  /\ hist.prepasses = 2
  /\ hist.max_assigns = 1
  /\ maximal_cellwise_error_init = 15
  /\ pc = "tick_test"
  /\ hist.adapted = 2

\* cfl_number times the minimum cell size of the mesh as it is now
StableStepSize ==
  LET finest == CHOOSE l \in {levels[c] : c \in Cells} :
                   \A c \in Cells : levels[c] <= l
  IN  parameters.cfl_number * (CoarseDiameter \div Pow2(finest))

\* adapt_mesh has returned and nothing has run since
AdaptReturned ==
  \/ pc = "prerefine_project"
  \/ pc = AfterAdapt /\ hist.adapted = step_number /\ step_number >= 1

\* C19: after every adaptation event the step size held by TimeControl is cfl_number
\* times the minimum cell size of the new mesh; in every loop iteration the dt passed to
\* the integrator is the step size by which advance_time_step advanced the clock in
\* that iteration; and a step size set by an adaptation is the one the next advance and
\* integration use, the step in which it was set having used the one before
C19_StepSizeFollowsMesh ==
  InRun =>
     /\ AdaptReturned => time_step = StableStepSize
     /\ (dof_gen = mesh_gen /\ dof_gen >= 0) => time_step = StableStepSize
     /\ (pc \in AfterIntegration \/ (pc \in AdaptPositions /\ am_ret = "loop")) =>
           /\ hist.int_dt = hist.adv_dt
           /\ hist.integrated = step_number
     /\ pc \in {"swap", "integrate"} => hist.adv_dt = time_step
     /\ (pc \in {"swap", "integrate"} /\ ~ hist.declared) => time = hist.stepped
     /\ (pc \in AfterIntegration /\ hist.adapted < step_number) => hist.int_dt = time_step

\* the adaptation of step 1 changed the step size: step 1 was advanced and integrated
\* with the old one, step 2 with the new one
C19_Witness ==
  /\ pc = "adapt_test"
  /\ step_number = 2
  /\ hist.adapted = 1
  /\ hist.int_dt = time_step
  /\ hist.adv_dt = time_step
  /\ time_step = StableStepSize
  /\ ~ hist.declared
  /\ time # 2 * time_step

\* the source state of an integration step that advanced on mesh generation g: the
\* projected initial condition in step 1, the output of step n - 1 afterwards
ExpectedSource(g, n) ==
  IF n = 1 THEN Vec(g, "initial", 0) ELSE Vec(g, "step", n - 1)

\* C20: the input of every integration step is the output of the step before it (the
\* projected initial condition in step 1), on the indexing of the mesh of the current
\* step, which after an adaptation is that output transferred onto the new mesh; no step
\* integrates from an older or a zero-initialised buffer
C20_StepsChained ==
  InRun =>
     /\ pc = "swap" => solutions = ExpectedSource(mesh_gen, step_number)
     /\ pc = "integrate" => tmp_solutions = ExpectedSource(mesh_gen, step_number)
     /\ (pc \in AfterIntegration \/ (pc \in AdaptPositions /\ am_ret = "loop")) =>
           hist.int_src = ExpectedSource(hist.adv_gen, step_number)
     /\ (pc \in {"analysis", "tick_test", "loop_test"} /\ step_number >= 1) =>
           solutions = Vec(mesh_gen, "step", step_number)

\* step 2 is about to integrate the output of step 1, transferred by the adaptation of
\* step 1 onto the mesh of generation 2 or later
C20_Witness ==
  /\ pc = "integrate"
  /\ step_number = 2
  /\ hist.adapted = 1
  /\ tmp_solutions = Vec(mesh_gen, "step", 1)
  /\ mesh_gen > hist.int_src.gen
  /\ hist.int_src.kind = "initial"

\* the positions of run_cfl_stability_analysis outside a run
SearchPositions == {"search_init", "search_loop", "search_run", "search_update",
                    "search_next", "search_report"}

\* C21: during the CFL search at most one LinearizedEulerProblem exists at any time
\* (none between two runs); every run starts with first_error_val at its sentinel -1
\* and no observation; and the verdict of a run is the stability test on the first and
\* the last observation of that same run, made with the candidate of that run
C21_RunsIndependent ==
  analysis_mode =>
     /\ hist.live \in {0, 1}
     /\ InRun => hist.live = 1
     /\ pc \in SearchPositions \cup {"construct"} => hist.live = 0
     /\ pc = "make_grid" => /\ first_error_val = -1
                            /\ hist.latches = 0
                            /\ hist.n_outputs = 0
                            /\ hist.first_obs = << -1, -1 >>
     /\ InRun => parameters.cfl_number = cfl_test
     /\ (pc = "search_update" /\ hist.runs >= 1) =>
           /\ hist.n_outputs >= 1
           /\ hist.latches = 1
           /\ simu_was_stable =
                 ~ (\/ hist.last_obs > 100 * hist.first_obs[1]
                    \/ 2 * hist.last_obs > 3 * hist.first_obs[2])

\* the second run of a search has returned a stable verdict after a first run whose
\* verdict was unstable
C21_Witness ==
  /\ analysis_mode
  /\ pc = "search_update"
  /\ hist.runs = 2
  /\ hist.live = 0
  /\ simu_was_stable
  /\ cfl_closest_instable < 100 * scale
  /\ cfl_closest_stable < 0

\* the value v over the current denominator was observed with verdict b: some run of
\* the search so far was given that value as its cfl_number and returned b (the
\* denominator only ever grows by a factor, so the run's denominator divides it)
Observed(v, b) ==
  \E r \in hist.verdicts :
     /\ r[3] = b
     /\ scale % r[2] = 0
     /\ r[1] * (scale \div r[2]) = v

\* C22: every run of the search is given the current candidate as its cfl_number (the
\* configured value in run 0) and computes its step size with it; the bound updated
\* after a run is that candidate; so a closest_stable other than -0.1 is a value some run
\* found stable and a closest_instable other than 100 a value some run found unstable
C22_BoundsAreObserved ==
  analysis_mode =>
     /\ InRun =>
           /\ parameters.cfl_number = cfl_test
           /\ i = 0 => cfl_test = hist.cfl0
           /\ (dof_gen = mesh_gen /\ dof_gen >= 0) =>
                 time_step = cfl_test * Diameter(MaxOf({levels[c] : c \in Cells}))
     /\ pc = "search_next" =>
           /\ Observed(cfl_test, simu_was_stable)
           /\ simu_was_stable => cfl_closest_stable = cfl_test
           /\ ~ simu_was_stable => cfl_closest_instable = cfl_test
     /\ pc \in SearchPositions \ {"search_init"} =>
           /\ cfl_closest_stable # - (scale \div 10) => Observed(cfl_closest_stable, TRUE)
           /\ cfl_closest_instable # 100 * scale => Observed(cfl_closest_instable, FALSE)
     /\ (InRun /\ i >= 1) =>
           /\ cfl_closest_stable # - (scale \div 10) => Observed(cfl_closest_stable, TRUE)
           /\ cfl_closest_instable # 100 * scale => Observed(cfl_closest_instable, FALSE)

\* after two runs followed step by step both bounds are found, and the candidates of the
\* two runs differ
C22_Witness ==
  /\ analysis_mode
  /\ pc = "search_next"
  /\ hist.runs = 2
  /\ cfl_closest_stable >= 0
  /\ cfl_closest_instable < 100 * scale
  /\ cfl_closest_stable # cfl_closest_instable
  /\ Observed(cfl_closest_stable, TRUE)
  /\ Observed(cfl_closest_instable, FALSE)

\* both bounds of the search differ from their sentinels -0.1 and 100
BothBoundsFound ==
  cfl_closest_stable # - (scale \div 10) /\ cfl_closest_instable # 100 * scale

\* C23: for every sequence of verdicts and the initial candidates 0.05, 0.3, 2.0 and 97.95,
\* closest_stable < closest_instable after every iteration, sentinels included; an
\* update never lowers closest_stable nor raises closest_instable; and once both bounds
\* are found every candidate lies strictly between them
C23_BoundsOrdered ==
  /\ pc \in SearchPositions \ {"search_init"} =>
        /\ cfl_closest_stable < cfl_closest_instable
        /\ cfl_test > 0
  /\ pc = "search_next" =>
        /\ cfl_closest_stable >= hist.prev_bounds[1]
        /\ cfl_closest_instable <= hist.prev_bounds[2]
        /\ hist.prev_bounds[1] < hist.prev_bounds[2]
  /\ (pc \in {"search_loop", "search_run"} /\ i < SearchIterations /\ BothBoundsFound) =>
        /\ cfl_closest_stable < cfl_test
        /\ cfl_test < cfl_closest_instable
  /\ (pc = "search_update" /\ BothBoundsFound) =>
        /\ cfl_closest_stable < cfl_test
        /\ cfl_test < cfl_closest_instable

\* an update between two found bounds has raised closest_stable to a midpoint
C23_Witness ==
  /\ pc = "search_next"
  /\ simu_was_stable
  /\ hist.prev_bounds[1] >= 0
  /\ hist.prev_bounds[2] < 100 * scale
  /\ cfl_closest_stable > hist.prev_bounds[1]
  /\ cfl_closest_stable < cfl_closest_instable

\* the flags the clamp of lines 275-278 alone leaves of the flags of the marking
ClampedRefine == {c \in refine_flags : levels[c] # max_level}
ClampedCoarsen ==
  {c \in coarsen_flags : (c \in refine_flags /\ levels[c] = max_level)
                            \/ levels[c] # min_level}

\* adapt_mesh is running for a pre-refinement pass
InPrerefinePass == pc \in AdaptPositions /\ am_ret = "prerefine"

\* the flag-adjustment pass changes nothing beyond the clamp unless it runs inside the
\* time loop with a positive reference error
RulesOnlyInLoop ==
  (pc = "am_adjust" /\ pc' = "am_prepare") =>
     \/ refine_flags' = ClampedRefine /\ coarsen_flags' = ClampedCoarsen
     \/ am_ret = "loop" /\ maximal_cellwise_error_init > 0

\* C24: during every pre-refinement pass the reference error is still -1, no indicator
\* is below a fraction of it, and the flag-adjustment pass leaves the flags as the clamp
\* alone leaves them; the refine-suppression and the forced-coarsen rule change a flag
\* only in an adaptation made inside the time loop
C24_RulesIdleBeforeLoop ==
  /\ [] (InPrerefinePass =>
            /\ maximal_cellwise_error_init = -1
            /\ \A c \in Cells : /\ error_per_cell[c] >= 0
                                /\ ~ (10 * error_per_cell[c] < maximal_cellwise_error_init)
                                /\ ~ (20 * error_per_cell[c] < maximal_cellwise_error_init))
  /\ [][RulesOnlyInLoop]_vars

\* the second pre-refinement pass has adjusted its flags: a cell of indicator 0 carries
\* no coarsen flag and a marked cell has kept its refine flag
C24_Witness ==
  /\ pc = "am_prepare"
  /\ am_ret = "prerefine"
  /\ hist.pre_adapts = 1
  /\ maximal_cellwise_error_init = -1
  /\ \E c \in Cells : error_per_cell[c] = 0 /\ c \notin coarsen_flags
  /\ refine_flags # {}

\* C25: the marking gives no cell both flags, and after the flag-adjustment pass no cell
\* carries a refine flag and a coarsen flag at the same time, whatever the (non-negative)
\* indicators and the reference error are
C25_NoCellBothFlags ==
  /\ pc = "am_adjust" => refine_flags \cap coarsen_flags = {}
  /\ pc = "am_prepare" =>
        /\ refine_flags \cap coarsen_flags = {}
        /\ \A c \in Cells : error_per_cell[c] >= 0
  /\ pc = "am_execute" => refine_flags \cap coarsen_flags = {}

\* under a positive reference error the pass has left one cell with its refine flag and
\* forced the coarsen flag on another
C25_Witness ==
  /\ pc = "am_prepare"
  /\ maximal_cellwise_error_init > 0
  /\ refine_flags # {}
  /\ \E c \in coarsen_flags : 20 * error_per_cell[c] < maximal_cellwise_error_init
  /\ \E c \in Cells : 10 * error_per_cell[c] < maximal_cellwise_error_init

\* C26 as claimed: whenever a run reaches the final report at least one time step has
\* been performed, and the averages of the report are numbers
C26_ReportAfterAStep ==
  /\ (InRun /\ pc = "report") => /\ step_number >= 1
                                 /\ hist.integrated >= 1
  /\ (InRun /\ pc = "run_return") => /\ hist.rep_steps >= 1
                                     /\ hist.rep_avg = "number"

\* what the code keeps of C26: a run whose first output does not declare divergence
\* reports after at least one time step
ReportAfterAStepUnlessDeclared ==
  (InRun /\ pc = "run_return" /\ hist.rep_steps = 0) =>
     /\ hist.declared
     /\ hist.n_outputs = 1
     /\ hist.rep_avg = "nan"

============================================================================
